---- MODULE Spec2Model ----
(***************************************************************************)
(* Model of the App component of frontend/src/App.js: the four useState    *)
(* cells, the three event handlers, the FileReader callback and sendData.  *)
(* Text is a sequence of code points; a file is a name with raw bytes.     *)
(* Every handler runs to its first suspension point as one step (the       *)
(* browser's event loop runs one callback at a time), so a step is: a user *)
(* event, a FileReader completion, or an axios completion.                 *)
(***************************************************************************)
EXTENDS Integers, Sequences, FiniteSets, TLC

\* number of accepted submissions (FileReader / request ids handed out)
MaxSubmits == 2

\* the JavaScript value undefined, and the empty string, as audioUrl values
Undefined == "<undefined>"
EmptyStr == ""
Urls == {"http://x/a.mp3", "http://x/b.mp3"}

\* the JavaScript value null of useState(null), and files[0] of an empty
\* selection; both are falsy in `if (fileInput)`
NullFile == [name |-> "<null>", bytes |-> <<>>]
UndefinedFile == [name |-> "<undefined>", bytes |-> <<>>]

\* files the user can pick: plain ASCII " a", and a file with a byte order
\* mark, a two-byte sequence (e-acute) and an invalid byte
Files ==
    { [name |-> "notes.txt", bytes |-> <<32, 97>>],
      [name |-> "odd.txt", bytes |-> <<239, 187, 191, 195, 169, 255>>] }

\* what the user types into the text area: nothing, white space only, "a",
\* and " a " (white space on both sides)
Texts == { <<>>, <<32>>, <<97>>, <<32, 97, 32>> }

\* HTTP statuses the endpoint answers with
Statuses == {200, 204, 500}

\* response.data: JSON null, or an object whose audioUrl field is absent
\* (undefined), empty, or a URL
NullBody == [kind |-> "null", audioUrl |-> Undefined]
Bodies ==
    {NullBody} \cup
    { [kind |-> "object", audioUrl |-> u] : u \in Urls \cup {Undefined, EmptyStr} }

VARIABLES
    textInput,   \* useState('')
    fileInput,   \* useState(null)
    audioUrl,    \* useState('')
    isLoading,   \* useState(false)
    readers,     \* FileReaders whose readAsText has not completed
    requests,    \* axios.post calls whose promise has not settled
    nextId,      \* number of the next accepted submission
    last,        \* what the latest step did (observation only)
    shownId      \* submission whose response last called setAudioUrl (0: none)

vars == <<textInput, fileInput, audioUrl, isLoading, readers, requests, nextId, last, shownId>>

----------------------------------------------------------------------------
\* JavaScript truthiness of the two values the component tests

FileTruthy(f) == f \notin {NullFile, UndefinedFile}

UrlTruthy(u) == u \notin {Undefined, EmptyStr}

\* String.prototype.trim: white space and line terminators of ECMAScript
WhiteSpace == {9, 10, 11, 12, 13, 32, 160, 5760, 8232, 8233, 8239, 8287, 12288, 65279}

RECURSIVE TrimStart(_)
TrimStart(s) ==
    IF s = <<>> THEN <<>>
    ELSE IF Head(s) \in WhiteSpace THEN TrimStart(Tail(s))
    ELSE s

RECURSIVE TrimEnd(_)
TrimEnd(s) ==
    IF s = <<>> THEN <<>>
    ELSE IF s[Len(s)] \in WhiteSpace THEN TrimEnd(SubSeq(s, 1, Len(s) - 1))
    ELSE s

Trim(s) == TrimEnd(TrimStart(s))

\* FileReader.readAsText without a label: UTF-8 decode; a leading byte order
\* mark is dropped, an ill-formed byte becomes U+FFFD
IsCont(b) == b \in 128..191

RECURSIVE Utf8Decode(_)
Utf8Decode(bs) ==
    IF bs = <<>> THEN <<>>
    ELSE LET b1 == Head(bs)
             n == Len(bs)
         IN IF b1 < 128
              THEN <<b1>> \o Utf8Decode(Tail(bs))
            ELSE IF b1 \in 194..223 /\ n >= 2 /\ IsCont(bs[2])
              THEN <<(b1 % 32) * 64 + (bs[2] % 64)>> \o Utf8Decode(SubSeq(bs, 3, n))
            ELSE IF b1 \in 224..239 /\ n >= 3 /\ IsCont(bs[2]) /\ IsCont(bs[3])
                    /\ (b1 = 224 => bs[2] >= 160) /\ (b1 = 237 => bs[2] <= 159)
              THEN <<(b1 % 16) * 4096 + (bs[2] % 64) * 64 + (bs[3] % 64)>>
                       \o Utf8Decode(SubSeq(bs, 4, n))
            ELSE <<65533>> \o Utf8Decode(Tail(bs))

ReadAsText(bs) ==
    IF Len(bs) >= 3 /\ SubSeq(bs, 1, 3) = <<239, 187, 191>>
      THEN Utf8Decode(SubSeq(bs, 4, Len(bs)))
      ELSE Utf8Decode(bs)

\* axios default validateStatus: the promise resolves for 2xx, rejects otherwise
AxiosResolves(status) == status >= 200 /\ status < 300

----------------------------------------------------------------------------
\* the observation record of a step: the operation, the HTTP status it saw
\* (0: none) and the alert() it raised ("none", "empty", "rejected", "error")

Obs(op, status, alert) == [op |-> op, status |-> status, alert |-> alert]

TypeOK ==
    /\ textInput \in Texts
    /\ fileInput \in Files \cup {NullFile, UndefinedFile}
    /\ audioUrl \in Urls \cup {Undefined, EmptyStr}
    /\ isLoading \in BOOLEAN
    /\ nextId \in 1..(MaxSubmits + 1)
    /\ \A r \in readers : r.id \in 1..MaxSubmits /\ r.file \in Files /\ r.content \in Texts
    /\ \A q \in requests : q.id \in 1..MaxSubmits
    /\ shownId \in 0..MaxSubmits
    /\ last.op \in {"init", "type", "pick", "submitFile", "submitText", "submitEmpty",
                    "onload", "readError", "response", "transportError"}
    /\ last.status \in Statuses \cup {0}
    /\ last.alert \in {"none", "empty", "rejected", "error"}

Init ==
    /\ textInput = <<>>
    /\ fileInput = NullFile
    /\ audioUrl = EmptyStr
    /\ isLoading = FALSE
    /\ readers = {}
    /\ requests = {}
    /\ nextId = 1
    /\ last = Obs("init", 0, "none")
    /\ shownId = 0

----------------------------------------------------------------------------
\* (mutant) typing also drops the file selection
handleTextChangeClearsFile(t) ==
    /\ textInput' = t
    /\ fileInput' = NullFile
    /\ last' = Obs("type", 0, "none")
    /\ UNCHANGED <<audioUrl, isLoading, readers, requests, nextId, shownId>>

\* handleTextChange
handleTextChange(t) ==
    /\ textInput' = t
    /\ last' = Obs("type", 0, "none")
    /\ UNCHANGED <<fileInput, audioUrl, isLoading, readers, requests, nextId, shownId>>

\* handleFileChange: files[0] is a File, or undefined for an empty selection
handleFileChange(f) ==
    /\ fileInput' = f
    /\ last' = Obs("pick", 0, "none")
    /\ UNCHANGED <<textInput, audioUrl, isLoading, readers, requests, nextId, shownId>>

\* <button type="submit" disabled={isLoading}>: the only way to submit the form
SubmitEnabled == ~isLoading

\* (mutant) the else-if tests the text without trimming it
TextBranchTakenNoTrim(t) == t # <<>>

\* the else-if of handleSubmit
TextBranchTaken(t) == Trim(t) # <<>>

\* let content = textInput; ... await sendData(content)
TextContent(t) == t

\* (mutant) onload never reassigns content: the text area's text is sent
OnloadContentStale(r) == r.content

\* (mutant) onload reads whatever file is selected when it runs
OnloadContentCurrentFile(r) == ReadAsText(fileInput.bytes)

\* content = event.target.result of reader.readAsText(fileInput); r.content is
\* the closure's `content` as handleSubmit initialised it
OnloadContent(r) == ReadAsText(r.file.bytes)

\* (mutant) sendData reuses an audioUrl it already holds instead of posting
sendDataStartCached(id, content, kind) ==
    /\ isLoading' = TRUE
    /\ requests' = IF audioUrl \notin {Undefined, EmptyStr}
                     THEN requests
                     ELSE requests \cup {[id |-> id, text |-> content, kind |-> kind]}

\* sendData up to `await axios.post`: setIsLoading(true) and the request
\* posted with { text: content }; kind tells which branch of handleSubmit
\* the request belongs to
sendDataStart(id, content, kind) ==
    /\ isLoading' = TRUE
    /\ requests' = requests \cup {[id |-> id, text |-> content, kind |-> kind]}

\* (mutant) setIsLoading(false) sits inside the try block: skipped on a throw
LoadingAfterSendDataInTry(threw) == IF threw THEN isLoading ELSE FALSE

\* isLoading once sendData has run to its end: setIsLoading(false) is the last
\* statement, after the try/catch, whether or not the try block threw
LoadingAfterSendData(threw) == FALSE

\* (mutant) the file branch does not wait for onload: sendData(content) is
\* called right after reader.readAsText
handleSubmitSendsBeforeLoad ==
    /\ SubmitEnabled
    /\ IF FileTruthy(fileInput)
         THEN /\ nextId <= MaxSubmits
              /\ readers' = readers \cup
                     {[id |-> nextId, file |-> fileInput, content |-> textInput]}
              /\ sendDataStart(nextId, textInput, "file")
              /\ nextId' = nextId + 1
              /\ last' = Obs("submitFile", 0, "none")
       ELSE IF TextBranchTaken(textInput)
         THEN /\ nextId <= MaxSubmits
              /\ sendDataStart(nextId, TextContent(textInput), "text")
              /\ nextId' = nextId + 1
              /\ last' = Obs("submitText", 0, "none")
              /\ UNCHANGED readers
       ELSE /\ last' = Obs("submitEmpty", 0, "empty")
            /\ UNCHANGED <<isLoading, readers, requests, nextId>>
    /\ UNCHANGED <<textInput, fileInput, audioUrl, shownId>>

\* handleSubmit
handleSubmit ==
    /\ SubmitEnabled
    /\ IF FileTruthy(fileInput)
         THEN /\ nextId <= MaxSubmits
              /\ readers' = readers \cup
                     {[id |-> nextId, file |-> fileInput, content |-> textInput]}
              /\ nextId' = nextId + 1
              /\ last' = Obs("submitFile", 0, "none")
              /\ UNCHANGED <<isLoading, requests>>
       ELSE IF TextBranchTaken(textInput)
         THEN /\ nextId <= MaxSubmits
              /\ sendDataStart(nextId, TextContent(textInput), "text")
              /\ nextId' = nextId + 1
              /\ last' = Obs("submitText", 0, "none")
              /\ UNCHANGED readers
       ELSE /\ last' = Obs("submitEmpty", 0, "empty")
            /\ UNCHANGED <<isLoading, readers, requests, nextId>>
    /\ UNCHANGED <<textInput, fileInput, audioUrl, shownId>>

\* reader.onload: the read succeeded; sendData(content) starts
readerOnload(r) ==
    /\ r \in readers
    /\ readers' = readers \ {r}
    /\ sendDataStart(r.id, OnloadContent(r), "file")
    /\ last' = Obs("onload", 0, "none")
    /\ UNCHANGED <<textInput, fileInput, audioUrl, nextId, shownId>>

\* (mutant) a failed read falls back to sending the text area's text
readerErrorSendsText(r) ==
    /\ r \in readers
    /\ readers' = readers \ {r}
    /\ sendDataStart(r.id, r.content, "file")
    /\ last' = Obs("readError", 0, "none")
    /\ UNCHANGED <<textInput, fileInput, audioUrl, nextId, shownId>>

\* the read failed: the reader fires error, for which no handler is set
readerError(r) ==
    /\ r \in readers
    /\ readers' = readers \ {r}
    /\ last' = Obs("readError", 0, "none")
    /\ UNCHANGED <<textInput, fileInput, audioUrl, isLoading, requests, nextId, shownId>>

\* (mutant) any 2xx status counts as success
IsSuccessStatus2xx(status) == status \in 200..299

\* response.status === 200
IsSuccessStatus(status) == status = 200

\* the try block throws into catch: axios rejected the status, or
\* response.data.audioUrl was read on a null response.data
Threw(status, body) ==
    ~AxiosResolves(status) \/ (IsSuccessStatus(status) /\ body.kind = "null")

\* the rest of sendData once the promise resolves or rejects with a response
sendDataResponse(q, status, body) ==
    /\ q \in requests
    /\ requests' = requests \ {q}
    /\ IF Threw(status, body)
         THEN /\ last' = Obs("response", status, "error")
              /\ UNCHANGED <<audioUrl, shownId>>
       ELSE IF IsSuccessStatus(status)
         THEN /\ audioUrl' = body.audioUrl
              /\ shownId' = q.id
              /\ last' = Obs("response", status, "none")
       ELSE /\ last' = Obs("response", status, "rejected")
            /\ UNCHANGED <<audioUrl, shownId>>
    /\ isLoading' = LoadingAfterSendData(Threw(status, body))
    /\ UNCHANGED <<textInput, fileInput, readers, nextId>>

\* (mutant) the catch block posts the request again
sendDataTransportErrorRetries(q) ==
    /\ q \in requests
    /\ requests' = requests
    /\ last' = Obs("transportError", 0, "error")
    /\ isLoading' = TRUE
    /\ UNCHANGED <<textInput, fileInput, audioUrl, readers, nextId, shownId>>

\* the promise rejects without a response (connection refused, timeout): catch
sendDataTransportError(q) ==
    /\ q \in requests
    /\ requests' = requests \ {q}
    /\ last' = Obs("transportError", 0, "error")
    /\ isLoading' = LoadingAfterSendData(TRUE)
    /\ UNCHANGED <<textInput, fileInput, audioUrl, readers, nextId, shownId>>

Next ==
    \/ \E t \in Texts : handleTextChange(t)
    \/ \E f \in Files \cup {UndefinedFile} : handleFileChange(f)
    \/ handleSubmit
    \/ \E r \in readers : readerOnload(r)
    \/ \E r \in readers : readerError(r)
    \/ \E q \in requests, s \in Statuses, b \in Bodies : sendDataResponse(q, s, b)
    \/ \E q \in requests : sendDataTransportError(q)

Spec == Init /\ [][Next]_vars

\* the pending step of submission id ends: its readAsText loads or fails, or
\* its request settles
Completes(id) ==
    \/ \E r \in readers : r.id = id /\ (readerOnload(r) \/ readerError(r))
    \/ \E q \in requests : q.id = id /\
           (sendDataTransportError(q) \/
            \E s \in Statuses, b \in Bodies : sendDataResponse(q, s, b))

\* the browser completes every read and the network settles every request
FairSpec == Spec /\ \A id \in 1..MaxSubmits : WF_vars(Completes(id))

----------------------------------------------------------------------------
\* submission id is accepted and has not completed
Pending(id) == (\E r \in readers : r.id = id) \/ (\E q \in requests : q.id = id)

InFlight == {r.id : r \in readers} \cup {q.id : q \in requests}

\* the step just taken was handleSubmit / the end of a request
SubmitOps == {"submitFile", "submitText", "submitEmpty"}
CompletionOps == {"response", "transportError"}

\* C1: at most one submission is in flight (file read or request pending)
\* at a time
C1_AtMostOneInFlight == Cardinality(InFlight) <= 1

\* C2: a submit made while a file is selected sends no request by itself,
\* whatever the text area holds; the request of a file submission is sent
\* when its read loads and carries the decoded content of the file selected
\* at the submit, never the text of the text area
C2_FileContentSent ==
    [][ /\ (last'.op \in SubmitOps /\ FileTruthy(fileInput)) =>
              /\ requests' = requests
              /\ \E r \in readers' \ readers : r.file = fileInput
        /\ \A q \in requests' \ requests : q.kind = "file" =>
              \E r \in readers \ readers' :
                  r.id = q.id /\ q.text = ReadAsText(r.file.bytes)
        /\ \A r \in readers \ readers' : \A q \in requests' \ requests :
              q.id = r.id /\ q.text = ReadAsText(r.file.bytes) ]_vars

\* a file submission made over a non-blank text area has sent its request:
\* the payload is the decoded file (U+00E9, U+FFFD), not the text
C2_Witness ==
    /\ last.op = "onload"
    /\ TextBranchTaken(textInput)
    /\ \E q \in requests : q.kind = "file" /\ q.text = <<233, 65533>> /\ q.text # textInput

\* C3: a submit with no file and a text that is non-blank after trimming
\* sends exactly one new request, with the text area's text as its text,
\* whatever audioUrl holds; audioUrl is not touched
C3_TextSubmitSendsOne ==
    [][ (last'.op \in SubmitOps /\ ~FileTruthy(fileInput) /\ Trim(textInput) # <<>>) =>
            /\ Cardinality(requests' \ requests) = 1
            /\ requests \subseteq requests'
            /\ \A q \in requests' \ requests :
                   q.text = textInput /\ q.id \notin InFlight
            /\ readers' = readers
            /\ audioUrl' = audioUrl ]_vars

\* a text is resubmitted while an earlier success is on display
C3_Witness ==
    /\ last.op = "submitText"
    /\ UrlTruthy(audioUrl)
    /\ \E q \in requests : q.id = nextId - 1 /\ q.kind = "text" /\ q.text = textInput

\* C4: a submit with no file and an empty or white-space-only text sends
\* nothing, starts no read, alerts the user and leaves isLoading and
\* audioUrl as they were
C4_EmptySubmitNoRequest ==
    [][ (last'.op \in SubmitOps /\ ~FileTruthy(fileInput) /\ Trim(textInput) = <<>>) =>
            /\ requests' = requests
            /\ readers' = readers
            /\ last'.alert = "empty"
            /\ isLoading' = isLoading
            /\ audioUrl' = audioUrl
            /\ nextId' = nextId ]_vars

\* a white-space-only text was submitted from Idle and the state is still Idle
C4_Witness ==
    /\ last.op = "submitEmpty"
    /\ last.alert = "empty"
    /\ textInput = <<32>>
    /\ ~isLoading /\ ~UrlTruthy(audioUrl)
    /\ InFlight = {}

\* C5 (as stated): a response ends in success, audioUrl set to the body's
\* audioUrl and no alert, if and only if its status is 200
C5_SucceededIff200 ==
    [][ \A q \in requests, s \in Statuses, b \in Bodies :
            sendDataResponse(q, s, b) =>
                ((s = 200) <=> (last'.alert = "none" /\ audioUrl' = b.audioUrl)) ]_vars

\* C5 (amended): audioUrl is set only by a response of status 200; a 200
\* response whose body is an object sets audioUrl to the body's audioUrl
\* with no alert; a 200 response with a null body, every other status and
\* every transport failure alert an error and leave audioUrl unchanged
C5_SucceededOnlyOn200 ==
    [][ /\ \A q \in requests, s \in Statuses, b \in Bodies :
              sendDataResponse(q, s, b) =>
                  IF s = 200 /\ b.kind = "object"
                    THEN last'.alert = "none" /\ audioUrl' = b.audioUrl
                    ELSE last'.alert \in {"rejected", "error"} /\ audioUrl' = audioUrl
        /\ \A q \in requests :
              sendDataTransportError(q) => last'.alert = "error" /\ audioUrl' = audioUrl
        /\ audioUrl' # audioUrl =>
              last'.op = "response" /\ last'.status = 200 /\ last'.alert = "none" ]_vars

\* a 200 response has set audioUrl to the URL of its body
C5_Witness ==
    /\ last.op = "response" /\ last.status = 200 /\ last.alert = "none"
    /\ audioUrl \in Urls
    /\ ~isLoading

\* C6: after a submission has ended in a failure (a status other than 200,
\* or a transport error), no audio result is on display: the state is
\* Failed, not Succeeded
C6_FailedNotSucceeded ==
    (last.op = "transportError" \/ (last.op = "response" /\ last.status # 200)) =>
        (last.alert # "none" /\ ~UrlTruthy(audioUrl))

\* C7: a completed request yields exactly one of: an audio URL set and
\* shown by it, or an error alert; and isLoading is false afterwards
C7_ExactlyOneOutcome ==
    last.op \in CompletionOps =>
        /\ (last.alert = "none" /\ UrlTruthy(audioUrl)) # (last.alert # "none")
        /\ ~isLoading

\* C8: an accepted submit (file selected, or non-blank text) puts the state
\* into Loading in that same step, with the submit control disabled
C8_SubmitEntersLoading ==
    [][ last'.op \in {"submitFile", "submitText"} => (isLoading' /\ ~SubmitEnabled') ]_vars

\* C9: under fair completion of file reads and requests, every accepted
\* submission eventually completes, and whenever the UI is loading it
\* eventually is interactive again (isLoading false, submit enabled)
C9_EventuallyInteractive ==
    /\ \A id \in 1..MaxSubmits : Pending(id) ~> ~Pending(id)
    /\ isLoading ~> (~isLoading /\ SubmitEnabled)

\* a request has failed in transport, nothing is pending and the form is
\* interactive again
C9_Witness ==
    /\ last.op = "transportError" /\ last.alert = "error"
    /\ InFlight = {}
    /\ ~isLoading /\ SubmitEnabled

\* C10: a failed file read is surfaced to the user by an alert
C10_ReadErrorSurfaced == last.op = "readError" => last.alert # "none"

\* C11: a failed file read sends no request: the step leaves requests and
\* isLoading alone, and the failed submission has no request afterwards
\* (neither the file's content nor the text area's text)
C11_ReadErrorSendsNothing ==
    [][ last'.op = "readError" =>
            /\ requests' = requests
            /\ isLoading' = isLoading
            /\ \A r \in readers \ readers' : \A q \in requests' : q.id # r.id ]_vars

\* a read has failed while the text area holds a non-blank text, and nothing
\* was sent
C11_Witness ==
    /\ last.op = "readError"
    /\ TextBranchTaken(textInput)
    /\ requests = {} /\ readers = {}
    /\ ~isLoading

\* C12 (as stated): the most recent user action decides the input: a submit
\* that directly follows typing a non-blank text sends that text, and a
\* submit that directly follows picking a file starts a read of that file
C12_MostRecentActionWins ==
    [][ /\ (last.op = "type" /\ last'.op \in SubmitOps /\ Trim(textInput) # <<>>) =>
               \E q \in requests' \ requests : q.text = textInput
        /\ (last.op = "pick" /\ last'.op \in SubmitOps /\ FileTruthy(fileInput)) =>
               \E r \in readers' \ readers : r.file = fileInput ]_vars

\* C12 (amended): text and file selection are held independently (typing
\* keeps the selection, picking keeps the text), and the selection decides
\* the submit whatever the order of the user's actions: with a file selected
\* the submit starts a read of that file and sends no text; with none
\* selected and a non-blank text it sends the text
C12_FileSelectionDecides ==
    [][ /\ last'.op = "type" => fileInput' = fileInput
        /\ last'.op = "pick" => textInput' = textInput
        /\ last'.op \in SubmitOps =>
               IF FileTruthy(fileInput)
                 THEN /\ last'.op = "submitFile"
                      /\ requests' = requests
                      /\ \E r \in readers' \ readers : r.file = fileInput
               ELSE IF Trim(textInput) # <<>>
                 THEN /\ last'.op = "submitText"
                      /\ readers' = readers
                      /\ \E q \in requests' \ requests : q.text = textInput
               ELSE last'.op = "submitEmpty" ]_vars

\* a file was selected, a text is in the text area, and the submit started a
\* read of the file, carrying the text only in its closure
C12_Witness ==
    /\ last.op = "submitFile"
    /\ requests = {}
    /\ \E r \in readers :
           r.id = nextId - 1 /\ r.file = fileInput /\ r.content = textInput
              /\ Trim(r.content) # <<>>

\* C13: the request of a text submission carries the trimmed text
C13_TrimmedTextSent ==
    [][ (last'.op = "submitText") =>
            \A q \in requests' \ requests : q.text = Trim(textInput) ]_vars

\* C14: no retries. A step posts at most one request; a request is posted
\* only by a submit (for the submission it accepts) or by the load of that
\* submission's read, never for a submission that already has one; a read
\* is started only by a submit, for the submission it accepts; the end of a
\* request or of a read, failed or not, posts nothing and starts nothing
C14_NoRetries ==
    [][ /\ Cardinality(requests' \ requests) <= 1
        /\ \A q \in requests' \ requests :
              /\ last'.op \in {"submitText", "onload"}
              /\ q.id \notin {p.id : p \in requests}
              /\ \/ (last'.op = "submitText" /\ q.id = nextId /\ nextId' = nextId + 1)
                 \/ (last'.op = "onload" /\ \E r \in readers \ readers' : r.id = q.id)
        /\ \A r \in readers' \ readers :
              last'.op = "submitFile" /\ r.id = nextId /\ nextId' = nextId + 1
        /\ last'.op \in CompletionOps \cup {"readError"} =>
              (requests' \subseteq requests /\ readers' \subseteq readers)
        /\ last'.op \in CompletionOps =>
              Cardinality(requests') = Cardinality(requests) - 1
        /\ \A q \in requests' : q.id < nextId' ]_vars

\* a request has failed and nothing is posted or pending afterwards
C14_Witness ==
    /\ last.op \in CompletionOps /\ last.alert \in {"rejected", "error"}
    /\ requests = {} /\ readers = {}
    /\ nextId = 2

\* C15: the request of a file submission is posted by the load of its read,
\* in the step that ends the read; the submit itself posts nothing, and a
\* submission never has its read and its request pending together
C15_ReadThenRequest ==
    [][ /\ \A r \in readers', q \in requests' : r.id # q.id
        /\ last'.op = "submitFile" => requests' = requests
        /\ \A q \in requests' \ requests : q.kind = "file" =>
              (last'.op = "onload" /\ \E r \in readers \ readers' : r.id = q.id) ]_vars

\* the read of a file submission has loaded: its request is pending and its
\* reader is gone
C15_Witness ==
    /\ last.op = "onload"
    /\ \E q \in requests : q.kind = "file" /\ \A r \in readers : r.id # q.id

\* C16: while a request is in flight isLoading is true and the submit
\* control is disabled
C16_LoadingWhileInFlight == requests # {} => (isLoading /\ ~SubmitEnabled)

\* C17: results are applied in submission order: a response never replaces
\* the result of a later submission
C17_ResultsInOrder == [][ shownId' >= shownId ]_vars

\* C18: the payload of a submission is fixed at the submit. A text submit
\* posts the text the text area holds at that moment and a file submit
\* starts a read of the file selected at that moment; typing and picking
\* change no pending read or request; a pending read or request is never
\* altered; and the load posts the content of the file the read was started
\* with
C18_PayloadFixedAtSubmit ==
    [][ /\ last'.op = "submitText" =>
              \A q \in requests' \ requests : q.text = textInput
        /\ last'.op = "submitFile" =>
              \A r \in readers' \ readers : r.file = fileInput
        /\ last'.op \in {"type", "pick"} =>
              (requests' = requests /\ readers' = readers)
        /\ \A q \in requests, p \in requests' : p.id = q.id => p = q
        /\ \A r \in readers, p \in readers' : p.id = r.id => p = r
        /\ last'.op = "onload" =>
              \A r \in readers \ readers' : \E q \in requests' \ requests :
                  q.id = r.id /\ q.text = ReadAsText(r.file.bytes) ]_vars

\* odd.txt was submitted, the selection was changed to notes.txt while the
\* read was pending, and the request posted at the load carries odd.txt
C18_Witness ==
    /\ last.op = "onload"
    /\ fileInput.name = "notes.txt"
    /\ nextId = 2
    /\ \E q \in requests : q.kind = "file" /\ q.text = <<233, 65533>>

====
